---- MODULE Spec2Model ----
(***************************************************************************)
(* State-machine model of the MEV engine's safety supervisor               *)
(* (mevbot/core/safety), its loop manager (mevbot/core/loop_manager.py)    *)
(* and the bot's bundle path (mevbot/bot.py, mevbot/core/flashbots.py).    *)
(*                                                                         *)
(* Amounts are integers in the smallest unit.  The source converts wei to  *)
(* Decimal ether/gwei with Web3.from_wei, which is exact, and compares the *)
(* Decimals; comparing the integers against the caps expressed in the same *)
(* unit decides every comparison the same way.                             *)
(***************************************************************************)
EXTENDS Integers, Sequences, FiniteSets, TLC

VARIABLES
    now,            \* wall clock, time.time()
    cb,             \* CircuitBreaker fields
    lastOp,         \* observer: the breaker operation that ran last
    lastResult,     \* observer: what validate_transaction returned
    lastReject,     \* observer: the check that made it return False
    acceptLog,      \* observer: times of the acceptances of the last W seconds
    rateRejected,   \* observer: a rate rejection happened since the last reset
    acceptedSum,    \* observer: sum of accepted values since the last reset
    lm,             \* LoopManager fields
    strat,          \* the strategies added to the loop manager, by id
    risk,           \* SafetyCoordinator.metrics.current_risk_level
    em,             \* EmergencyManager fields, its state file and its procedure
    lastExec,       \* observer: the last run of _execute_strategy_safely
    config,         \* SafetyCoordinator.config
    bot,            \* MEVBot fields and the position of its main loop
    fb,             \* FlashbotsManager fields
    chain,          \* w3.eth.block_number
    pool,           \* the pending pool seen by the mempool monitor
    relay,          \* observer: the send_bundle calls received by the relay
    monitor,        \* MempoolMonitor fields
    manager,        \* MempoolManager fields
    flashloan,      \* FlashLoanManager fields and the request made of it
    sandwich,       \* SandwichStrategy fields and its last SandwichParams
    arbitrage       \* ArbitrageStrategy: the pool graph and the cycles found

breakerVars == <<now, cb, lastOp, lastResult, lastReject, acceptLog,
                 rateRejected, acceptedSum>>

loopVars == <<lm, strat, risk, em, lastExec, config>>

botVars == <<bot, fb, chain, pool, relay>>

storeVars == <<monitor, manager, flashloan, sandwich, arbitrage>>

vars == <<now, cb, lastOp, lastResult, lastReject, acceptLog, rateRejected,
          acceptedSum, lm, strat, risk, em, lastExec, config, bot, fb, chain,
          pool, relay, monitor, manager, flashloan, sandwich, arbitrage>>

----------------------------------------------------------------------------
(* Bounds of the model *)

MaxTime == 3
MaxValue == 2
MaxGasPrice == 2
PnlSpan == 1

(* Configuration of the breaker (config keys read in __init__) *)

MaxPositionSize == 2
MaxGasPriceGwei == 1
MaxDailyGasSpend == 1
MinProfitThreshold == 1
MaxDailyLoss == 1
TxWindow == 1
MaxTxPerWindow == 2
SlipNum == 1
SlipDen == 2
MetricsResetInterval == 3
HealthCheckInterval == 2

Absent == -1
NoReason == "None"

----------------------------------------------------------------------------
(* Transactions handed to validate_transaction: a dict with 'value',       *)
(* optional 'gasPrice', 'gas', 'expected_profit', and an optional pair     *)
(* 'expected_price'/'actual_price'.  Absent marks a missing key; a missing *)
(* or negative 'value' makes Web3.from_wei raise.                          *)

\* expected and actual price: no pair, a zero expected price, no slippage,
\* slippage above max_slippage
PricePairs == {<<Absent, Absent>>, <<0, 1>>, <<1, 1>>, <<1, 2>>}

Txs ==
    {[value |-> v, gasPrice |-> g, gas |-> 1, expected_profit |-> p,
      expected_price |-> pp[1], actual_price |-> pp[2]] :
        v \in Absent .. MaxValue, g \in Absent .. MaxGasPrice,
        p \in {MinProfitThreshold - 1, MinProfitThreshold}, pp \in PricePairs}

Abs(x) == IF x < 0 THEN -x ELSE x


RECURSIVE FilterWindow(_, _, _)
FilterWindow(s, t, w) ==
    IF s = <<>> THEN <<>>
    ELSE IF t - Head(s) <= w
         THEN <<Head(s)>> \o FilterWindow(Tail(s), t, w)
         ELSE FilterWindow(Tail(s), t, w)

----------------------------------------------------------------------------
(* CircuitBreaker *)

CBInit ==
    [enabled |-> TRUE,
     triggered |-> FALSE,
     trigger_reason |-> NoReason,
     current_size |-> 0,
     current_daily_spend |-> 0,
     current_daily_pnl |-> 0,
     tx_timestamps |-> <<>>,
     last_health_check |-> 0,
     last_metrics_reset |-> 0]

trigger_breaker(b, reason) ==
    [b EXCEPT !.triggered = TRUE, !.trigger_reason = reason]

reset_breaker(b, t) ==
    [b EXCEPT !.triggered = FALSE,
              !.trigger_reason = NoReason,
              !.tx_timestamps = <<>>,
              !.current_size = 0,
              !.current_daily_spend = 0,
              !.current_daily_pnl = 0,
              !.last_metrics_reset = t]

HealthPosition(b) ==
    IF b.current_size > MaxPositionSize
    THEN trigger_breaker(b, "Position limit exceeded") ELSE b

\* a loss check that forgets the configured bound
HealthLossAtZero(b) ==
    IF b.current_daily_pnl <= 0
    THEN trigger_breaker(b, "Maximum daily loss exceeded") ELSE b

HealthLoss(b) ==
    IF b.current_daily_pnl <= -MaxDailyLoss
    THEN trigger_breaker(b, "Maximum daily loss exceeded") ELSE b

HealthGas(b) ==
    IF b.current_daily_spend > MaxDailyGasSpend
    THEN trigger_breaker(b, "Daily gas spend limit exceeded") ELSE b

\* a metrics reset that forgets the daily profit and loss
ResetKeepsPnl(b, t) ==
    IF t - b.last_metrics_reset >= MetricsResetInterval
    THEN [b EXCEPT !.current_size = 0,
                   !.current_daily_spend = 0,
                   !.tx_timestamps = <<>>,
                   !.last_metrics_reset = t]
    ELSE b

\* a metrics reset that also clears the triggered flag
HealthClearsTrigger(b, t) ==
    IF t - b.last_metrics_reset >= MetricsResetInterval
    THEN [b EXCEPT !.triggered = FALSE,
                   !.current_size = 0,
                   !.current_daily_spend = 0,
                   !.current_daily_pnl = 0,
                   !.tx_timestamps = <<>>,
                   !.last_metrics_reset = t]
    ELSE b

_check_system_health(b, t) ==
    IF t - b.last_metrics_reset >= MetricsResetInterval
    THEN [b EXCEPT !.current_size = 0,
                   !.current_daily_spend = 0,
                   !.current_daily_pnl = 0,
                   !.tx_timestamps = <<>>,
                   !.last_metrics_reset = t]
    ELSE IF t - b.last_health_check >= HealthCheckInterval
         THEN [HealthGas(HealthLoss(HealthPosition(b)))
                   EXCEPT !.last_health_check = t]
         ELSE b

(* The outcome of a check or of the whole validation: the breaker after    *)
(* it, the value returned, and the check that rejected.                    *)
Outcome(b, ok, reject) == [cb |-> b, ok |-> ok, reject |-> reject]

\* a position check that forgets the value of the transaction at hand
PositionIgnoresValue(b, value) ==
    IF b.current_size > MaxPositionSize
    THEN Outcome(trigger_breaker(b, "Position size limit exceeded"), FALSE, "position")
    ELSE Outcome(b, TRUE, "none")

_check_position_size(b, value) ==
    IF b.current_size + value > MaxPositionSize
    THEN Outcome(trigger_breaker(b, "Position size limit exceeded"), FALSE, "position")
    ELSE Outcome(b, TRUE, "none")

_check_gas_limits(b, gas_price, gas) ==
    IF gas_price > MaxGasPriceGwei
    THEN Outcome(trigger_breaker(b, "Gas price too high"), FALSE, "gas_price")
    ELSE IF b.current_daily_spend + gas_price * gas > MaxDailyGasSpend
         THEN Outcome(trigger_breaker(b, "Daily gas spend limit would be exceeded"),
                      FALSE, "daily_gas")
         ELSE Outcome([b EXCEPT !.current_daily_spend = @ + gas_price * gas],
                      TRUE, "none")

\* a rate check that lets one transaction too many through
RateOffByOne(b, t) ==
    LET kept == FilterWindow(b.tx_timestamps, t, TxWindow)
        b1 == [b EXCEPT !.tx_timestamps = kept]
    IN IF Len(kept) > MaxTxPerWindow
       THEN Outcome(b1, FALSE, "tx_rate")
       ELSE Outcome(b1, TRUE, "none")

_check_tx_rate(b, t) ==
    LET kept == FilterWindow(b.tx_timestamps, t, TxWindow)
        b1 == [b EXCEPT !.tx_timestamps = kept]
    IN IF Len(kept) >= MaxTxPerWindow
       THEN Outcome(b1, FALSE, "tx_rate")
       ELSE Outcome(b1, TRUE, "none")

\* a profit check that rejects without tripping the breaker
ProfitRejectsQuietly(b, expected_profit) ==
    IF expected_profit < MinProfitThreshold
    THEN Outcome(b, FALSE, "min_profit")
    ELSE Outcome(b, TRUE, "none")

_check_profit_threshold(b, expected_profit) ==
    IF expected_profit < MinProfitThreshold
    THEN Outcome(trigger_breaker(b, "Profit below minimum threshold"), FALSE, "min_profit")
    ELSE Outcome(b, TRUE, "none")

(* slippage = abs(actual - expected) / expected > max_slippage; a zero     *)
(* expected price makes the Decimal division raise.                        *)
_check_slippage(b, expected_price, actual_price) ==
    IF expected_price = 0
    THEN Outcome(b, FALSE, "error_price")
    ELSE IF Abs(actual_price - expected_price) * SlipDen > SlipNum * expected_price
         THEN Outcome(trigger_breaker(b, "Slippage too high"), FALSE, "slippage")
         ELSE Outcome(b, TRUE, "none")

RecordAccepted(b, value, t) ==
    [b EXCEPT !.tx_timestamps = Append(@, t), !.current_size = @ + value]

ValidateChecks(h, tx, t) ==
    LET gp == IF tx.gasPrice = Absent THEN 0 ELSE tx.gasPrice
        p == _check_position_size(h, tx.value)
        g == _check_gas_limits(p.cb, gp, tx.gas)
        r == _check_tx_rate(g.cb, t)
        f == _check_profit_threshold(r.cb, tx.expected_profit)
        s == IF tx.expected_price = Absent
             THEN Outcome(f.cb, TRUE, "none")
             ELSE _check_slippage(f.cb, tx.expected_price, tx.actual_price)
    IN IF ~p.ok THEN p
       ELSE IF ~g.ok THEN g
       ELSE IF ~r.ok THEN r
       ELSE IF ~f.ok THEN f
       ELSE IF ~s.ok THEN s
       ELSE Outcome(RecordAccepted(s.cb, tx.value, t), TRUE, "none")

validate_transaction(b, tx, t) ==
    IF ~b.enabled THEN Outcome(b, FALSE, "disabled")
    ELSE LET h == _check_system_health(b, t)
         IN IF h.triggered THEN Outcome(h, FALSE, "triggered")
            ELSE IF tx.value = Absent THEN Outcome(h, FALSE, "error_value")
            ELSE ValidateChecks(h, tx, t)

\* a loss bound that is reached only when it is passed
LossTriggersBelowBound(b, amount) ==
    LET b1 == [b EXCEPT !.current_daily_pnl = @ + amount]
    IN IF b1.current_daily_pnl < -MaxDailyLoss
       THEN trigger_breaker(b1, "Maximum daily loss exceeded")
       ELSE b1

record_profit_loss(b, amount) ==
    LET b1 == [b EXCEPT !.current_daily_pnl = @ + amount]
    IN IF b1.current_daily_pnl <= -MaxDailyLoss
       THEN trigger_breaker(b1, "Maximum daily loss exceeded")
       ELSE b1

emergency_shutdown(b) == trigger_breaker(b, "Emergency shutdown activated")

----------------------------------------------------------------------------
(* Observers *)

InWindow(log, t) == FilterWindow(log, t, TxWindow)

\* acceptances made before an operator's reset_breaker are not counted: the
\* reset empties the log.  The acceptance log keeps the latest MaxTxPerWindow + 1 acceptances: enough
\* to tell whether more than MaxTxPerWindow of them lie inside one window
LogAccept(log, t) ==
    LET full == Append(log, t)
    IN IF Len(full) > MaxTxPerWindow + 1 THEN Tail(full) ELSE full

\* the value the counters hold after the call started: zero when the call's
\* health check reset the metrics
MetricsResetDue(b, t) == t - b.last_metrics_reset >= MetricsResetInterval

SumAfterHealth(b, t) == IF MetricsResetDue(b, t) THEN 0 ELSE acceptedSum

\* what the last operation was and what it returned; operations other than
\* validate_transaction return nothing
Observe(op, result, reject) ==
    /\ lastOp' = op
    /\ lastResult' = result
    /\ lastReject' = reject

----------------------------------------------------------------------------
(* SafetyCoordinator *)

CoordMaxGasPriceGwei == 1
ContractWhitelist == {"A"}
NoAddress == "none"

\* what a strategy's execute() may return as a transaction: one that passes
\* every check, and the ones that differ from it in one field
GoodTx ==
    [value |-> 1, gasPrice |-> 0, gas |-> 1, expected_profit |-> MinProfitThreshold,
     expected_price |-> Absent, actual_price |-> Absent, to |-> "A"]

StrategyTxs ==
    {GoodTx,
     [GoodTx EXCEPT !.value = 0],
     [GoodTx EXCEPT !.gasPrice = Absent],
     [GoodTx EXCEPT !.gasPrice = MaxGasPriceGwei + 1],
     [GoodTx EXCEPT !.expected_profit = MinProfitThreshold - 1],
     [GoodTx EXCEPT !.to = NoAddress],
     [GoodTx EXCEPT !.to = "B"]}

\* tx['gasPrice'] raises KeyError when the key is missing; the except
\* clause returns False
_validate_gas_price(tx) ==
    IF tx.gasPrice = Absent THEN FALSE
    ELSE ~(tx.gasPrice > CoordMaxGasPriceGwei)

_validate_contract_interaction(tx) ==
    IF tx.to # NoAddress
    THEN tx.to \in config.contract_whitelist
    ELSE TRUE

\* the checks that follow the breaker's outcome c
CoordinatorChecks(c, tx) ==
    [breaker |-> c,
     ok |-> c.ok /\ _validate_gas_price(tx) /\ _validate_contract_interaction(tx),
     reject |-> IF ~c.ok THEN c.reject
                ELSE IF ~_validate_gas_price(tx) THEN "coord_gas_price"
                ELSE IF ~_validate_contract_interaction(tx) THEN "whitelist"
                ELSE "none"]

\* the coordinator's verdict and, in breaker, the breaker's own outcome
coord_validate_transaction(b, tx, t) ==
    CoordinatorChecks(validate_transaction(b, tx, t), tx)

_update_risk_level(level) ==
    IF level \in {"CRITICAL", "FATAL"} THEN "HIGH"
    ELSE IF level = "WARNING" THEN "MEDIUM"
    ELSE "LOW"

----------------------------------------------------------------------------
(* EmergencyManager *)

Hashes == {"h1", "h2"}

\* list(a_set), as json.dump receives it, and set(a_list), as _load_state
\* builds it
RECURSIVE ListOf(_)
ListOf(S) ==
    IF S = {} THEN <<>>
    ELSE LET x == CHOOSE y \in S : TRUE
         IN <<x>> \o ListOf(S \ {x})

SetOf(l) == {l[i] : i \in DOMAIN l}

\* the state file: the flag and the two lists of hashes
NoFile == [exists |-> FALSE, shutdown_triggered |-> FALSE,
           pending_transactions |-> <<>>, cancelled_transactions |-> <<>>]

StateFile(flag, pending, cancelled) ==
    [exists |-> TRUE, shutdown_triggered |-> flag,
     pending_transactions |-> pending, cancelled_transactions |-> cancelled]

\* __init__ followed by _load_state on the file found at start-up
EMInit(file) ==
    [shutdown_triggered |-> FALSE,
     recovery_mode |-> file.exists /\ file.shutdown_triggered,
     pending_transactions |-> IF file.exists THEN SetOf(file.pending_transactions)
                              ELSE {},
     cancelled_transactions |-> IF file.exists
                                THEN SetOf(file.cancelled_transactions)
                                ELSE {},
     state_file |-> file,
     pc |-> "idle",
     level |-> "INFO",
     queue |-> {},
     notified |-> FALSE,
     preserved |-> FALSE,
     exited |-> FALSE,
     exit_code |-> Absent,
     fatal |-> FALSE,
     cancel_sent |-> {},
     cancel_failed |-> {},
     watch |-> {},
     receipt_seen |-> {}]

\* a trigger_shutdown without its guard: every call starts the procedure
TriggerEveryTime(e, level) ==
    [e EXCEPT !.shutdown_triggered = TRUE,
              !.pc = "gather",
              !.level = level,
              !.queue = e.pending_transactions,
              !.notified = FALSE,
              !.preserved = FALSE,
              !.fatal = @ \/ level = "FATAL"]

\* trigger_shutdown up to the gather: a second call returns at once.
\* fatal remembers that a FATAL request was made
trigger_shutdown(e, level) ==
    IF e.shutdown_triggered
    THEN [e EXCEPT !.fatal = @ \/ level = "FATAL"]
    ELSE [e EXCEPT !.shutdown_triggered = TRUE,
                   !.pc = "gather",
                   !.level = level,
                   !.queue = e.pending_transactions,
                   !.notified = FALSE,
                   !.preserved = FALSE,
                   !.fatal = @ \/ level = "FATAL"]

_preserve_system_state(e) ==
    [e EXCEPT !.state_file = StateFile(e.shutdown_triggered,
                                       ListOf(e.pending_transactions),
                                       ListOf(e.cancelled_transactions))]

\* what the node returns for a pending hash, and what _get_transaction
\* gives when the lookup fails or the sender is empty
ChainTx(h) ==
    IF h = "h1" THEN [from |-> "a", nonce |-> 1, gasPrice |-> 3]
    ELSE [from |-> "b", nonce |-> 2, gasPrice |-> 2]

NoDetails == [from |-> "", nonce |-> 0, gasPrice |-> 0]

Fetches(h) == {ChainTx(h), NoDetails}

\* int(gasPrice * 1.5) of a non-negative integer
CancelKeepsGasPrice(price) == price

RaisedGasPrice(price) == (price * 3) \div 2

cancel_tx(tx) ==
    [from |-> tx.from, to |-> tx.from, value |-> 0, nonce |-> tx.nonce,
     gasPrice |-> RaisedGasPrice(tx.gasPrice), gas |-> 21000]

\* a cancellation that records the hash and leaves it pending
CancelLeavesPending(e, h, tx, sent) ==
    IF tx.from # "" /\ sent
    THEN [e EXCEPT !.cancelled_transactions = @ \cup {h},
                   !.queue = @ \ {h},
                   !.cancel_sent = @ \cup {[hash |-> h, tx |-> cancel_tx(tx)]}]
    ELSE [e EXCEPT !.queue = @ \ {h},
                   !.cancel_failed = @ \cup {h}]

\* one turn of the loop of _cancel_pending_transactions: tx is what
\* _get_transaction returned, sent says that signing and
\* send_raw_transaction raised nothing.  cancel_sent holds what reached the
\* node, cancel_failed the hashes whose turn ended without a cancellation
cancel_one(e, h, tx, sent) ==
    IF tx.from # "" /\ sent
    THEN [e EXCEPT !.cancelled_transactions = @ \cup {h},
                   !.pending_transactions = @ \ {h},
                   !.queue = @ \ {h},
                   !.cancel_sent = @ \cup {[hash |-> h, tx |-> cancel_tx(tx)]}]
    ELSE [e EXCEPT !.queue = @ \ {h},
                   !.cancel_failed = @ \cup {h}]

\* _monitor_pending_transactions: a pass iterates over a copy of the pending
\* set, kept in watch
monitor_copy(e) == [e EXCEPT !.watch = e.pending_transactions]

\* one turn of a pass, after get_transaction_receipt returned: a receipt
\* removes the hash, and set.remove of a hash that is no longer pending
\* raises KeyError, which ends the pass.  receipt_seen holds the hashes whose
\* receipt the monitor got
monitor_one(e, h, receipt) ==
    IF ~receipt THEN [e EXCEPT !.watch = @ \ {h}]
    ELSE IF h \in e.pending_transactions
    THEN [e EXCEPT !.pending_transactions = @ \ {h},
                   !.watch = @ \ {h},
                   !.receipt_seen = @ \cup {h}]
    ELSE [e EXCEPT !.watch = {},
                   !.receipt_seen = @ \cup {h}]

record_incident_em(e, level) ==
    IF level \in {"CRITICAL", "FATAL"} THEN trigger_shutdown(e, level) ELSE e

\* the recovery procedure is a placeholder: it changes nothing, and
\* recovery_mode stays set
_handle_recovery(e) == e

\* SafetyCoordinator._initialize_emergency_system, as far as the emergency
\* manager is concerned
_initialize_emergency_system(e) ==
    IF e.recovery_mode THEN _handle_recovery(e) ELSE e

----------------------------------------------------------------------------
(* LoopManager and strategies *)

Strategies == {"s1", "s2"}
ExecutionCooldown == 1

\* asyncio's loop.time() is the monotonic clock: its reading when the
\* process starts is the uptime of the host, not zero
ClockStart == 1

loop_time == ClockStart + now

is_ready(s) ==
    /\ strat[s].running
    /\ ~(loop_time - strat[s].last_execution < ExecutionCooldown)

\* _should_execute_strategy calls self.safety.check_network_conditions() and
\* self.safety.check_system_resources(); SafetyCoordinator defines only
\* _check_network_conditions and _check_system_resources, so the call raises
\* AttributeError and the except clause returns False
CoordinatorHasPublicChecks == FALSE

_should_execute_strategy(s, network_ok, resources_ok) ==
    IF ~is_ready(s) THEN FALSE
    ELSE IF ~CoordinatorHasPublicChecks THEN FALSE
    ELSE network_ok /\ resources_ok

----------------------------------------------------------------------------
(* Observers of the breaker, as a function of one validation *)

ObsAcceptLog(log, out, t) == IF out.ok THEN LogAccept(log, t) ELSE log

ObsRateRejected(rr, b, out, t) ==
    IF out.reject = "tx_rate" THEN TRUE
    ELSE IF b.enabled /\ MetricsResetDue(b, t) THEN FALSE
    ELSE rr

ObsAcceptedSum(sum, b, out, value, t) ==
    (IF b.enabled /\ MetricsResetDue(b, t) THEN 0 ELSE sum)
    + (IF out.ok THEN value ELSE 0)

\* the breaker and its observers after the coordinator's outcome c of one
\* more validation; ok is the coordinator's verdict
ObservedAfter(g, c, tx, t) ==
    [cb |-> c.breaker.cb,
     acceptLog |-> ObsAcceptLog(g.acceptLog, c.breaker, t),
     rateRejected |-> ObsRateRejected(g.rateRejected, g.cb, c.breaker, t),
     acceptedSum |-> ObsAcceptedSum(g.acceptedSum, g.cb, c.breaker, tx.value, t),
     lastOp |-> "validate",
     lastResult |-> c.breaker.ok,
     lastReject |-> c.breaker.reject,
     ok |-> c.ok]

Validated(g, tx, t) ==
    ObservedAfter(g, coord_validate_transaction(g.cb, tx, t), tx, t)

Current ==
    [cb |-> cb, acceptLog |-> acceptLog, rateRejected |-> rateRejected,
     acceptedSum |-> acceptedSum, lastOp |-> "other", lastResult |-> FALSE,
     lastReject |-> "none", ok |-> FALSE]

TxHash(tx) == <<"tx", tx.to>>

\* what the signer and the node do with a transaction: both succeed, the
\* signer raises, or send_raw_transaction raises
Wires == {"ok", "sign_raises", "send_raises"}

\* the signer and send_raw_transaction after the final validation v, when
\* proceed holds; an exception of either call is caught and None is returned
SignAndSend(v, proceed, tx, wire) ==
    [g |-> v,
     v2 |-> IF v.ok THEN "True" ELSE "False",
     signed |-> proceed,
     sent |-> proceed /\ wire # "sign_raises",
     hashes |-> IF proceed /\ wire = "ok" THEN {TxHash(tx)} ELSE {}]

GatedSignAndSend(v, tx, wire) ==
    SignAndSend(v, v.ok, tx, wire)

\* a submission that signs and sends whatever the final validation returned
SubmitUnconditionally(g, tx, t, wire) ==
    SignAndSend(Validated(g, tx, t), TRUE, tx, wire)

\* the final validation of the transaction, then the signer and the node
_submit_transaction(g, tx, t, wire) ==
    GatedSignAndSend(Validated(g, tx, t), tx, wire)

\* no submission: the first validation g1 returned False
NotSubmitted(g1) ==
    [g |-> g1, v2 |-> "-", signed |-> FALSE, sent |-> FALSE, hashes |-> {}]

SubmitIfValid(g1, tx, t, wire) ==
    IF g1.ok THEN _submit_transaction(g1, tx, t, wire)
    ELSE NotSubmitted(g1)

NoExec ==
    [executed |-> FALSE, triggered |-> FALSE, v1 |-> "-", v2 |-> "-",
     signed |-> FALSE, sent |-> FALSE, incident |-> FALSE]

\* what strategy.execute() does: it raises, returns nothing, or returns a
\* transaction
NoTx ==
    [value |-> 0, gasPrice |-> Absent, gas |-> 1, expected_profit |-> 0,
     expected_price |-> Absent, actual_price |-> Absent, to |-> NoAddress]

Results ==
    {[kind |-> k, tx |-> NoTx] : k \in {"raise", "None"}}
    \cup {[kind |-> "dict", tx |-> tx] : tx \in StrategyTxs}

\* the effect of a run that validated once (g1) and then submitted (sub)
Executed(g1, sub) ==
    /\ cb' = sub.g.cb
    /\ acceptLog' = sub.g.acceptLog
    /\ rateRejected' = sub.g.rateRejected
    /\ acceptedSum' = sub.g.acceptedSum
    /\ Observe("validate", sub.g.lastResult, sub.g.lastReject)
    /\ lm' = [lm EXCEPT !.pending_transactions = @ \cup sub.hashes]
    /\ lastExec' = [executed |-> TRUE,
                    triggered |-> cb.triggered,
                    v1 |-> IF g1.ok THEN "True" ELSE "False",
                    v2 |-> sub.v2,
                    signed |-> sub.signed,
                    sent |-> sub.sent,
                    incident |-> FALSE]
    /\ UNCHANGED <<now, strat, risk, em>>

ExecutedAfterFirst(g1, tx, wire) ==
    Executed(g1, SubmitIfValid(g1, tx, now, wire))

\* _execute_strategy_safely from strategy.execute() on; the counters
\* total_executions and successful_executions are not modelled
_execute_strategy_safely(s, result, wire) ==
    IF result.kind = "raise"
    THEN /\ risk' = _update_risk_level("WARNING")
         /\ lastExec' = [NoExec EXCEPT !.executed = TRUE,
                                       !.triggered = cb.triggered,
                                       !.incident = TRUE]
         /\ Observe("other", FALSE, "none")
         /\ UNCHANGED <<now, cb, acceptLog, rateRejected, acceptedSum, lm, strat, em>>
    ELSE IF result.kind = "None"
    THEN /\ lastExec' = [NoExec EXCEPT !.executed = TRUE,
                                       !.triggered = cb.triggered]
         /\ Observe("other", FALSE, "none")
         /\ UNCHANGED <<now, cb, acceptLog, rateRejected, acceptedSum, lm, strat,
                        risk, em>>
    ELSE ExecutedAfterFirst(Validated(Current, result.tx, now), result.tx,
                            wire)

----------------------------------------------------------------------------
(* Initial states *)

\* the coroutines start() leaves running: _run_loop, which it awaits, and the
\* two monitors it creates as tasks; tasks counts the live ones of each kind
Tasks == {"run_loop", "monitor_transactions", "monitor_health"}

MaxTasks == 2

NoTasks == [t \in Tasks |-> 0]

Spawned(tasks) == [t \in Tasks |-> tasks[t] + 1]

BreakerInit ==
    /\ now = 0
    /\ cb = CBInit
    /\ lastOp = "other"
    /\ lastResult = FALSE
    /\ lastReject = "none"
    /\ acceptLog = <<>>
    /\ rateRejected = FALSE
    /\ acceptedSum = 0

\* LoopManager.__init__, with the strategies added before start
LoopInit(file) ==
    /\ lm = [running |-> FALSE, looping |-> FALSE, pending_transactions |-> {},
             tasks |-> NoTasks]
    /\ strat = [s \in Strategies |-> [running |-> FALSE, last_execution |-> 0]]
    /\ risk = "LOW"
    /\ em = EMInit(file)
    /\ lastExec = NoExec

BotInit ==
    /\ bot = [is_running |-> FALSE, current_block |-> 0, pending_bundles |-> <<>>,
              pc |-> "top", queue |-> {}, loan_params |-> "unbound"]
    /\ fb = [bundle_history |-> <<>>]
    /\ chain = 0
    /\ pool = {}
    /\ relay = <<>>

\* MempoolMonitor.__init__ and MempoolManager.__init__: transactions is the
\* set of the stored Transaction objects, pending_txs the sequence of them in
\* insertion order, an index the set of its <<key, hash>> pairs; seen are the
\* hashes the pending filter has delivered, last_error the exception of the
\* last turn of start_monitoring, iterated_at the time at which the last
\* iteration of _monitor_loop ended, -1 before the first
MempoolInit ==
    /\ monitor = [running |-> FALSE, transactions |-> {}, iterated_at |-> -1]
    /\ manager = [pending_txs |-> <<>>, index_by_protocol |-> {},
                  index_by_token |-> {}, seen |-> {}, last_error |-> "none"]

\* the providers of FlashLoanManager, in the order of its providers dict
AAVE_V3 == "aave_v3"
DYDX == "dydx"
BALANCER == "balancer"
UNISWAP_V3 == "uniswap_v3"

ProviderOrder == <<AAVE_V3, DYDX, BALANCER, UNISWAP_V3>>

ProviderNames == {ProviderOrder[i] : i \in 1 .. Len(ProviderOrder)}

\* FlashLoanManager.__init__ and the request get_optimal_provider is about to
\* receive: contracts are the providers whose contract could be built,
\* async_w3 says whether contract calls return awaitables, liquidity is what
\* each provider's pool holds of the token
LoanInit(contracts, async_w3, liquidity, amount) ==
    flashloan = [contracts |-> contracts, async_w3 |-> async_w3,
                 liquidity |-> liquidity, amount |-> amount,
                 best_provider |-> "unasked"]

\* SandwichStrategy.__init__; front_tx and back_tx are those of the
\* SandwichParams executed last, <<>> for None
SandwichInit ==
    sandwich = [total_attempts |-> 0, successful_attempts |-> 0,
                total_profit |-> 0, total_gas_used |-> 0,
                front_tx |-> <<>>, back_tx |-> <<>>]

\* the DEXes of config['dexes'] and the tokens they may trade
PoolIds == {"p1", "p2", "p3"}

Tokens == {"T", "U"}

\* ArbitrageStrategy.__init__: listed gives the tokens each configured DEX
\* trades on the chain; paths is what _find_arbitrage_paths returned for
\* token T, once asked
ArbitrageInit(listed) ==
    arbitrage = [listed |-> listed, asked |-> FALSE, paths |-> {}]

StrategyInit ==
    /\ SandwichInit
    /\ ArbitrageInit([d \in PoolIds |-> {}])

StoreInit ==
    /\ MempoolInit
    /\ LoanInit(ProviderNames, TRUE, [p \in ProviderNames |-> 0], 0)
    /\ StrategyInit

\* SafetyCoordinator.__init__ with the configured whitelist
ConfigInit(whitelist) == config = [contract_whitelist |-> whitelist]

Init ==
    /\ BreakerInit /\ ConfigInit(ContractWhitelist) /\ LoopInit(NoFile)
    /\ BotInit /\ StoreInit

\* the whitelists a configuration may hold; the key's default is the empty
\* list
Whitelists == {{}, {"A"}, {"A", "B"}}

InitCoordinator ==
    /\ BreakerInit
    /\ \E whitelist \in Whitelists : ConfigInit(whitelist)
    /\ LoopInit(NoFile)
    /\ BotInit
    /\ StoreInit

\* the emergency state files a start-up may find
BootFiles ==
    {NoFile, StateFile(TRUE, <<"h1">>, <<>>),
     StateFile(FALSE, <<"h1", "h2">>, <<>>)}

InitEmergency ==
    /\ BreakerInit
    /\ ConfigInit(ContractWhitelist)
    /\ \E file \in BootFiles : LoopInit(file)
    /\ BotInit
    /\ StoreInit

----------------------------------------------------------------------------
(* Actions of the breaker on its own *)

Tick ==
    /\ now < MaxTime
    /\ now' = now + 1
    /\ acceptLog' = InWindow(acceptLog, now + 1)
    /\ Observe("other", FALSE, "none")
    /\ lastExec' = NoExec
    /\ UNCHANGED <<cb, rateRejected, acceptedSum, lm, strat, risk, em, config,
                   botVars, storeVars>>

ValidateTransaction(tx) ==
    LET out == validate_transaction(cb, tx, now)
    IN /\ cb' = out.cb
       /\ Observe("validate", out.ok, out.reject)
       /\ acceptLog' = ObsAcceptLog(acceptLog, out, now)
       /\ rateRejected' = ObsRateRejected(rateRejected, cb, out, now)
       /\ acceptedSum' = ObsAcceptedSum(acceptedSum, cb, out, tx.value, now)
       /\ UNCHANGED <<now, loopVars, botVars, storeVars>>

CheckSystemHealth ==
    /\ cb' = _check_system_health(cb, now)
    /\ Observe("other", FALSE, "none")
    /\ acceptedSum' = SumAfterHealth(cb, now)
    /\ rateRejected' = (rateRejected /\ ~MetricsResetDue(cb, now))
    /\ UNCHANGED <<now, acceptLog, loopVars, botVars, storeVars>>

RecordProfitLoss(amount) ==
    /\ cb.current_daily_pnl + amount \in -PnlSpan .. PnlSpan
    /\ cb' = record_profit_loss(cb, amount)
    /\ Observe("other", FALSE, "none")
    /\ UNCHANGED <<now, acceptLog, rateRejected, acceptedSum, loopVars, botVars, storeVars>>

EmergencyShutdown ==
    /\ cb' = emergency_shutdown(cb)
    /\ Observe("other", FALSE, "none")
    /\ UNCHANGED <<now, acceptLog, rateRejected, acceptedSum, loopVars, botVars, storeVars>>

ResetBreaker ==
    /\ cb' = reset_breaker(cb, now)
    /\ Observe("reset_breaker", FALSE, "none")
    /\ acceptedSum' = 0
    /\ rateRejected' = FALSE
    /\ acceptLog' = <<>>
    /\ lastExec' = NoExec
    /\ UNCHANGED <<now, lm, strat, risk, em, config, botVars, storeVars>>

NextBreaker ==
    \/ Tick
    \/ \E tx \in Txs : ValidateTransaction(tx)
    \/ CheckSystemHealth
    \/ \E amount \in {-1, 1} : RecordProfitLoss(amount)
    \/ EmergencyShutdown
    \/ ResetBreaker

SpecBreaker == Init /\ [][NextBreaker]_vars

----------------------------------------------------------------------------
(* Actions of the loop manager, the coordinator and the emergency manager *)

\* os._exit(1) has not ended the process
Alive == ~em.exited

\* LoopManager.start up to the main loop; looping says that a _run_loop is
\* live.  When safety.start() raises, a CRITICAL incident is recorded and
\* neither the monitors nor the loop are started
Start(fails) ==
    /\ Alive
    /\ ~lm.running
    /\ \A t \in Tasks : lm.tasks[t] < MaxTasks
    /\ lm' = [lm EXCEPT !.running = TRUE,
                        !.looping = (~fails \/ lm.tasks["run_loop"] > 0),
                        !.tasks = IF fails THEN @ ELSE Spawned(@)]
    /\ IF fails
       THEN /\ risk' = _update_risk_level("CRITICAL")
            /\ em' = record_incident_em(em, "CRITICAL")
            /\ UNCHANGED strat
       ELSE /\ strat' = [s \in Strategies |-> [strat[s] EXCEPT !.running = TRUE]]
            /\ em' = _initialize_emergency_system(em)
            /\ UNCHANGED risk
    /\ lastExec' = NoExec
    /\ Observe("other", FALSE, "none")
    /\ UNCHANGED <<now, cb, acceptLog, rateRejected, acceptedSum, config,
                   botVars, storeVars>>

\* LoopManager.stop together with the next test of running by every live
\* coroutine, which ends it
Stop ==
    /\ Alive
    /\ lm.running
    /\ lm' = [lm EXCEPT !.running = FALSE, !.looping = FALSE, !.tasks = NoTasks]
    /\ strat' = [s \in Strategies |-> [strat[s] EXCEPT !.running = FALSE]]
    /\ lastExec' = NoExec
    /\ Observe("other", FALSE, "none")
    /\ UNCHANGED <<now, cb, acceptLog, rateRejected, acceptedSum, risk, em,
                   config, botVars, storeVars>>

\* LoopManager.stop on its own: it clears running, stops the strategies and
\* the coordinator and returns; it neither cancels nor awaits the coroutines
StopCall ==
    /\ Alive
    /\ lm.running
    /\ lm' = [lm EXCEPT !.running = FALSE]
    /\ strat' = [s \in Strategies |-> [strat[s] EXCEPT !.running = FALSE]]
    /\ lastExec' = NoExec
    /\ Observe("other", FALSE, "none")
    /\ UNCHANGED <<now, cb, acceptLog, rateRejected, acceptedSum, risk, em,
                   config, botVars, storeVars>>

\* one coroutine of kind t returns from its sleep and tests running: it goes
\* round again, or it ends (for _run_loop, its start() call returns)
TaskWakes(t) ==
    /\ Alive
    /\ lm.tasks[t] > 0
    /\ lm' = IF lm.running THEN lm
             ELSE [lm EXCEPT !.tasks[t] = @ - 1,
                             !.looping = IF t = "run_loop"
                                         THEN lm.tasks[t] > 1 ELSE @]
    /\ lastExec' = NoExec
    /\ Observe("other", FALSE, "none")
    /\ UNCHANGED <<now, cb, acceptLog, rateRejected, acceptedSum, strat, risk, em,
                   config, botVars, storeVars>>

\* one strategy's turn in an iteration of _run_loop; network_ok and
\* resources_ok are what the coordinator's two checks would return.  A turn
\* that does not select the strategy is observed as "skipped", with whether
\* the strategy was ready and both checks passed
RunLoop(s, network_ok, resources_ok) ==
    /\ Alive
    /\ lm.running
    /\ lm.looping
    /\ IF _should_execute_strategy(s, network_ok, resources_ok)
       THEN \E result \in Results, wire \in Wires :
               _execute_strategy_safely(s, result, wire)
       ELSE /\ lastExec' = NoExec
            /\ Observe("skipped",
                       is_ready(s) /\ network_ok /\ resources_ok, "none")
            /\ UNCHANGED <<now, cb, acceptLog, rateRejected, acceptedSum, lm,
                           strat, risk, em>>
    /\ UNCHANGED <<config, botVars, storeVars>>

\* LoopManager.execute_strategy, the public entry
ExecuteStrategy(s, result, wire) ==
    /\ Alive
    /\ _execute_strategy_safely(s, result, wire)
    /\ UNCHANGED <<config, botVars, storeVars>>

Levels == {"INFO", "WARNING", "CRITICAL", "FATAL"}

\* SafetyCoordinator.record_incident, as the monitors call it
RecordIncident(level) ==
    /\ Alive
    /\ risk' = _update_risk_level(level)
    /\ em' = record_incident_em(em, level)
    /\ lastExec' = NoExec
    /\ Observe("other", FALSE, "none")
    /\ UNCHANGED <<now, cb, acceptLog, rateRejected, acceptedSum, lm, strat,
                   config, botVars, storeVars>>

EmStep(e) ==
    /\ Alive
    /\ em.pc = "gather"
    /\ em' = e
    /\ lastExec' = NoExec
    /\ Observe("other", FALSE, "none")
    /\ UNCHANGED <<now, cb, acceptLog, rateRejected, acceptedSum, lm, strat, risk,
                   config, botVars, storeVars>>

\* the four coroutines of the gather in trigger_shutdown
SendNotifications ==
    /\ ~em.notified
    /\ EmStep([em EXCEPT !.notified = TRUE])

CancelPendingTransaction(h, tx, sent) ==
    /\ h \in em.queue
    /\ EmStep(cancel_one(em, h, tx, sent))

PreserveSystemState ==
    /\ ~em.preserved
    /\ EmStep([_preserve_system_state(em) EXCEPT !.preserved = TRUE])

\* the background tasks __init__ starts: they run from construction until
\* the process ends
BackgroundStep(e) ==
    /\ Alive
    /\ em' = e
    /\ lastExec' = NoExec
    /\ Observe("other", FALSE, "none")
    /\ UNCHANGED <<now, cb, acceptLog, rateRejected, acceptedSum, lm, strat, risk,
                   config, botVars, storeVars>>

MonitorPass ==
    /\ em.watch = {}
    /\ em.pending_transactions # {}
    /\ BackgroundStep(monitor_copy(em))

MonitorReceipt(h, receipt) ==
    /\ h \in em.watch
    /\ BackgroundStep(monitor_one(em, h, receipt))

\* _periodic_state_backup: the first write happens as soon as the task
\* runs, the later ones every 300 seconds
PeriodicStateBackup ==
    /\ Alive
    /\ BackgroundStep(_preserve_system_state(em))

\* the gather is over: a FATAL shutdown ends the process
ShutdownDone ==
    /\ em.notified
    /\ em.preserved
    /\ em.queue = {}
    /\ EmStep([em EXCEPT !.pc = "done",
                          !.exited = (em.level = "FATAL"),
                          !.exit_code = IF em.level = "FATAL" THEN 1 ELSE @])

\* a new process on the state file the old one left: every object is
\* constructed again
Restart ==
    /\ cb' = [CBInit EXCEPT !.last_health_check = now, !.last_metrics_reset = now]
    /\ Observe("restart", FALSE, "none")
    /\ acceptLog' = <<>>
    /\ rateRejected' = FALSE
    /\ acceptedSum' = 0
    /\ lm' = [running |-> FALSE, looping |-> FALSE, pending_transactions |-> {},
              tasks |-> NoTasks]
    /\ strat' = [s \in Strategies |-> [running |-> FALSE, last_execution |-> 0]]
    /\ risk' = "LOW"
    /\ em' = EMInit(em.state_file)
    /\ lastExec' = NoExec
    /\ UNCHANGED <<now, config, botVars, storeVars>>

\* the incidents of the monitors and the steps of the emergency procedure
\* are explored by SpecEmergency
NextLoop ==
    \/ Tick
    \/ ResetBreaker
    \/ \E fails \in BOOLEAN : Start(fails)
    \/ Stop
    \/ \E s \in Strategies, network_ok, resources_ok \in BOOLEAN :
          RunLoop(s, network_ok, resources_ok)
    \/ \E s \in Strategies, result \in Results, wire \in Wires :
          ExecuteStrategy(s, result, wire)

SpecLoop == Init /\ [][NextLoop]_vars

\* start, stop and the coroutines between them
NextTasks ==
    \/ \E fails \in BOOLEAN : Start(fails)
    \/ StopCall
    \/ \E t \in Tasks : TaskWakes(t)
    \/ \E s \in Strategies, network_ok, resources_ok \in BOOLEAN :
          RunLoop(s, network_ok, resources_ok)
    \/ Tick

\* the event loop resumes every sleeping coroutine
TasksFairness == \A t \in Tasks : WF_vars(TaskWakes(t))

SpecTasks == Init /\ [][NextTasks]_vars /\ TasksFairness

\* SafetyCoordinator.validate_transaction called on its own; the observers
\* hold the coordinator's verdict and the check that refused
CoordValidate(tx) ==
    LET c == coord_validate_transaction(cb, tx, now)
    IN /\ cb' = c.breaker.cb
       /\ Observe("coord_validate", c.ok, c.reject)
       /\ acceptLog' = ObsAcceptLog(acceptLog, c.breaker, now)
       /\ rateRejected' = ObsRateRejected(rateRejected, cb, c.breaker, now)
       /\ acceptedSum' = ObsAcceptedSum(acceptedSum, cb, c.breaker, tx.value, now)
       /\ lastExec' = NoExec
       /\ UNCHANGED <<now, lm, strat, risk, em, config, botVars, storeVars>>

NextCoordinator ==
    \/ Tick
    \/ ResetBreaker
    \/ \E tx \in StrategyTxs : CoordValidate(tx)

SpecCoordinator == InitCoordinator /\ [][NextCoordinator]_vars

CancelSomeTransaction ==
    \E h \in Hashes, sent \in BOOLEAN :
        \E tx \in Fetches(h) : CancelPendingTransaction(h, tx, sent)

\* one process, from its start to the end of its emergency procedure
NextShutdown ==
    \/ \E level \in Levels : RecordIncident(level)
    \/ SendNotifications
    \/ CancelSomeTransaction
    \/ PreserveSystemState
    \/ ShutdownDone

\* the event loop runs every coroutine of the gather until it returns
ShutdownFairness ==
    /\ WF_vars(SendNotifications)
    /\ WF_vars(CancelSomeTransaction)
    /\ WF_vars(PreserveSystemState)
    /\ WF_vars(ShutdownDone)

SpecShutdown == InitEmergency /\ [][NextShutdown]_vars /\ ShutdownFairness

\* processes that follow one another on the same state file
NextEmergency ==
    \/ NextShutdown
    \/ Restart

SpecEmergency == InitEmergency /\ [][NextEmergency]_vars

\* one process: its emergency procedure next to its transaction monitor
NextPending ==
    \/ \E level \in Levels : RecordIncident(level)
    \/ SendNotifications
    \/ CancelSomeTransaction
    \/ PreserveSystemState
    \/ ShutdownDone
    \/ MonitorPass
    \/ \E h \in Hashes, receipt \in BOOLEAN : MonitorReceipt(h, receipt)

SpecPending == InitEmergency /\ [][NextPending]_vars

\* processes that follow one another, each with its periodic backup
NextBackup ==
    \/ \E level \in Levels : RecordIncident(level)
    \/ SendNotifications
    \/ CancelSomeTransaction
    \/ PreserveSystemState
    \/ ShutdownDone
    \/ PeriodicStateBackup
    \/ Restart

SpecBackup == InitEmergency /\ [][NextBackup]_vars

----------------------------------------------------------------------------
(* MEVBot and FlashbotsManager *)

MaxBlock == 2
MaxSends == 2

BotMinProfit == 0
ExpectedGross == 10

\* pending transactions of interest, with what the analysis finds in them
PoolTxs ==
    {[id |-> "t1", profit |-> 1, requires_flash_loan |-> TRUE, value |-> 3],
     [id |-> "t2", profit |-> 1, requires_flash_loan |-> FALSE, value |-> 1],
     [id |-> "t3", profit |-> 0, requires_flash_loan |-> TRUE, value |-> 3]}

\* MempoolMonitor.get_relevant_transactions: the transactions of interest
\* that are still pending
get_relevant_transactions == pool

\* MEVStrategy.analyze_opportunity
analyze_opportunity(tx) ==
    [id |-> tx.id, profit |-> tx.profit,
     requires_flash_loan |-> tx.requires_flash_loan, value |-> tx.value]

_build_flash_loan_transactions(loan_params) ==
    <<[id |-> "loan", value |-> 0, gas |-> 1, gasPrice |-> 1]>>

_build_mev_transaction(opportunity) ==
    [id |-> opportunity.id, value |-> opportunity.value, gas |-> 1, gasPrice |-> 1]

\* the transactions of the bundle; loan_params is "None" or "params"
_create_bundle(opportunity, loan_params) ==
    (IF loan_params # "None"
     THEN _build_flash_loan_transactions(loan_params)
     ELSE <<>>)
    \o <<_build_mev_transaction(opportunity)>>

RECURSIVE TotalValue(_)
TotalValue(txs) ==
    IF txs = <<>> THEN 0
    ELSE Head(txs).value - Head(txs).gas * Head(txs).gasPrice + TotalValue(Tail(txs))

RECURSIVE TotalGas(_)
TotalGas(txs) ==
    IF txs = <<>> THEN 0 ELSE Head(txs).gas + TotalGas(Tail(txs))

\* the sign of _calculate_profit_per_gas
ProfitPerGasPositive(txs) == TotalGas(txs) > 0 /\ TotalValue(txs) > 0

PpgGreater(a, b) ==
    (a.value - a.gas * a.gasPrice) * b.gas > (b.value - b.gas * b.gasPrice) * a.gas

\* _calculate_profit_per_gas([a]) < _calculate_profit_per_gas([b]), the gas
\* of a transaction being positive
PpgLess(a, b) ==
    (a.value - a.gas * a.gasPrice) * b.gas < (b.value - b.gas * b.gasPrice) * a.gas

\* tx takes its place behind the transactions that do not have less profit
\* per gas: sorted() is stable, with reverse=True too
RECURSIVE InsertByPpg(_, _)
InsertByPpg(sorted_txs, tx) ==
    IF sorted_txs = <<>> THEN <<tx>>
    ELSE IF PpgLess(Head(sorted_txs), tx) THEN <<tx>> \o sorted_txs
    ELSE <<Head(sorted_txs)>> \o InsertByPpg(Tail(sorted_txs), tx)

\* sorted(transactions, key=profit per gas, reverse=True)
RECURSIVE SortedByPpg(_)
SortedByPpg(txs) ==
    IF txs = <<>> THEN <<>>
    ELSE InsertByPpg(SortedByPpg(SubSeq(txs, 1, Len(txs) - 1)), txs[Len(txs)])

\* None is the empty sequence; the gas prices the optimizer assigns are not
\* modelled
_optimize_bundle(txs, block_ok) ==
    IF txs = <<>> THEN <<>>
    ELSE IF ~ProfitPerGasPositive(txs) THEN <<>>
    ELSE IF ~block_ok THEN <<>>
    ELSE SortedByPpg(txs)

\* the bundle hash the relay answers with
BundleHash(txs) == [i \in 1 .. Len(txs) |-> txs[i].id]

\* what the relay's simulate answers: an exception, a failure, or a success
\* with a gross value
SimResults ==
    {[kind |-> "raise", success |-> FALSE, gross_value |-> 0],
     [kind |-> "result", success |-> FALSE, gross_value |-> 0],
     [kind |-> "result", success |-> TRUE, gross_value |-> ExpectedGross - 2],
     [kind |-> "result", success |-> TRUE, gross_value |-> ExpectedGross - 1]}

\* FlashbotsManager.submit_bundle: called says whether send_bundle was
\* called, hash is the returned bundle hash, <<>> for None
submit_bundle(txs, target_block, block_ok, sim, send_ok) ==
    LET optimized == _optimize_bundle(txs, block_ok)
    IN IF optimized = <<>>
       THEN [called |-> FALSE, hash |-> <<>>, optimized |-> optimized]
       ELSE IF sim.kind = "raise" \/ ~sim.success
       THEN [called |-> FALSE, hash |-> <<>>, optimized |-> optimized]
       ELSE [called |-> TRUE,
             hash |-> IF send_ok THEN BundleHash(optimized) ELSE <<>>,
             optimized |-> optimized]

_cleanup_old_bundles(bundles, current_block) ==
    SelectSeq(bundles, LAMBDA b : b.target_block >= current_block - 2)

BotStart ==
    /\ ~bot.is_running
    /\ bot.pc = "top"
    /\ bot' = [bot EXCEPT !.is_running = TRUE]
    /\ UNCHANGED <<breakerVars, loopVars, storeVars, fb, chain, pool, relay>>

BotStop ==
    /\ bot.is_running
    /\ bot' = [bot EXCEPT !.is_running = FALSE]
    /\ UNCHANGED <<breakerVars, loopVars, storeVars, fb, chain, pool, relay>>

\* the chain grows by one block
NewBlock ==
    /\ chain < MaxBlock
    /\ chain' = chain + 1
    /\ UNCHANGED <<breakerVars, loopVars, storeVars, bot, fb, pool, relay>>

\* a transaction of interest is broadcast
Broadcast(tx) ==
    /\ tx \notin pool
    /\ pool' = pool \cup {tx}
    /\ UNCHANGED <<breakerVars, loopVars, storeVars, bot, fb, chain, relay>>

\* a pending transaction is included or dropped
Leave(tx) ==
    /\ tx \in pool
    /\ pool' = pool \ {tx}
    /\ UNCHANGED <<breakerVars, loopVars, storeVars, bot, fb, chain, relay>>

\* the top of an iteration of _main_loop, up to the for loop of
\* _process_pending_transactions
MainLoopTop ==
    /\ bot.is_running
    /\ bot.pc = "top"
    /\ bot' = [bot EXCEPT
                 !.pending_bundles = IF chain > bot.current_block
                                     THEN _cleanup_old_bundles(@, chain)
                                     ELSE @,
                 !.current_block = IF chain > @ THEN chain ELSE @,
                 !.pc = "process",
                 !.queue = get_relevant_transactions,
                 !.loan_params = "unbound"]
    /\ UNCHANGED <<breakerVars, loopVars, storeVars, fb, chain, pool, relay>>

\* one turn of the for loop of _process_pending_transactions
ProcessTransaction(tx, loan_found, block_ok, sim, send_ok) ==
    /\ bot.pc = "process"
    /\ tx \in bot.queue
    /\ Len(relay) < MaxSends
    /\ LET opportunity == analyze_opportunity(tx)
           target_block == bot.current_block + 1
           loan == IF opportunity.requires_flash_loan
                   THEN (IF loan_found THEN "params" ELSE "None")
                   ELSE bot.loan_params
           sub == submit_bundle(_create_bundle(opportunity, loan), target_block,
                                block_ok, sim, send_ok)
       IN IF ~(opportunity.profit > BotMinProfit)
          THEN /\ bot' = [bot EXCEPT !.queue = @ \ {tx}]
               /\ UNCHANGED <<fb, relay>>
          ELSE IF opportunity.requires_flash_loan /\ ~loan_found
          THEN /\ bot' = [bot EXCEPT !.queue = @ \ {tx}, !.loan_params = "None"]
               /\ UNCHANGED <<fb, relay>>
          ELSE IF loan = "unbound"
          THEN \* UnboundLocalError leaves the for loop
               /\ bot' = [bot EXCEPT !.queue = {}]
               /\ UNCHANGED <<fb, relay>>
          ELSE /\ bot' = [bot EXCEPT
                            !.queue = @ \ {tx},
                            !.loan_params = loan,
                            !.pending_bundles =
                                IF sub.hash # <<>>
                                THEN Append(@, [hash |-> sub.hash,
                                                target_block |-> target_block])
                                ELSE @]
               /\ fb' = [fb EXCEPT !.bundle_history =
                                IF sub.hash # <<>>
                                THEN Append(@, [target_block |-> target_block,
                                                bundle_hash |-> sub.hash])
                                ELSE @]
               /\ relay' = IF sub.called
                           THEN Append(relay,
                                       [hash |-> BundleHash(sub.optimized),
                                        target_block |-> target_block,
                                        success |-> sim.kind = "result" /\ sim.success,
                                        gross_value |-> sim.gross_value])
                           ELSE relay
    /\ UNCHANGED <<breakerVars, loopVars, storeVars, chain, pool>>

\* the for loop is over: the loop sleeps and starts again
MainLoopSleep ==
    /\ bot.pc = "process"
    /\ bot.queue = {}
    /\ bot' = [bot EXCEPT !.pc = "top"]
    /\ UNCHANGED <<breakerVars, loopVars, storeVars, fb, chain, pool, relay>>

NextBot ==
    \/ BotStart
    \/ BotStop
    \/ NewBlock
    \/ \E tx \in PoolTxs : Broadcast(tx)
    \/ \E tx \in PoolTxs : Leave(tx)
    \/ MainLoopTop
    \/ \E tx \in PoolTxs, loan_found, block_ok, send_ok \in BOOLEAN, sim \in SimResults :
          ProcessTransaction(tx, loan_found, block_ok, sim, send_ok)
    \/ MainLoopSleep

SpecBot == Init /\ [][NextBot]_vars

----------------------------------------------------------------------------
(* SandwichStrategy *)

\* scaled: the gas of a swap, 150000, and the gas _calculate_profit_per_gas
\* takes for an entry without one, 21000
SwapGas == 2
DefaultGas == 1

MaxFrontAmount == 6

\* the dummy transaction of _create_swap_tx; gas_price is what
\* get_gas_price answers
_create_swap_tx(amount, is_buy, gas_price) ==
    [id |-> IF is_buy THEN "front" ELSE "back",
     value |-> IF is_buy THEN amount ELSE 0,
     gas |-> SwapGas, gasPrice |-> gas_price]

\* {'hash': target_tx_hash} as _calculate_profit_per_gas reads it
VictimRef == [id |-> "victim", value |-> 0, gas |-> DefaultGas, gasPrice |-> 0]

\* FlashbotsManager defines neither send_bundle nor get_gas_price: the bundle
\* is taken through the manager's submission path for the next block
send_bundle(bundle, block_ok, sim, send_ok) ==
    submit_bundle(bundle, chain + 1, block_ok, sim, send_ok)

\* back_amount is front_amount * 1.02, which a sell does not put in its value
ExecuteSandwich(front_amount, expected_profit, front_price, back_price, block_ok, sim, send_ok) ==
    /\ Len(relay) < MaxSends
    /\ sandwich.total_attempts < MaxSends
    /\ LET front_tx == _create_swap_tx(front_amount, TRUE, front_price)
           back_tx == _create_swap_tx(front_amount, FALSE, back_price)
           sub == send_bundle(<<front_tx, VictimRef, back_tx>>, block_ok, sim,
                              send_ok)
           success == sub.hash # <<>>
       IN /\ sandwich' =
                 [total_attempts |-> sandwich.total_attempts + 1,
                  successful_attempts |->
                      sandwich.successful_attempts + (IF success THEN 1 ELSE 0),
                  total_profit |->
                      sandwich.total_profit + (IF success THEN expected_profit ELSE 0),
                  total_gas_used |->
                      sandwich.total_gas_used
                          + (IF success THEN front_tx.gas + back_tx.gas ELSE 0),
                  front_tx |-> front_tx, back_tx |-> back_tx]
          /\ relay' = IF sub.called
                      THEN Append(relay,
                                  [hash |-> BundleHash(sub.optimized),
                                   target_block |-> chain + 1,
                                   success |-> sim.kind = "result" /\ sim.success,
                                   gross_value |-> sim.gross_value])
                      ELSE relay
    /\ UNCHANGED <<breakerVars, loopVars, bot, fb, chain, pool, monitor, manager,
                   flashloan, arbitrage>>

\* what get_gas_price may answer to the two calls of one execution
QuotedGasPrices == {0, 1, 2}

NextSandwich ==
    \E front_amount \in 1 .. MaxFrontAmount, expected_profit \in {1},
       front_price, back_price \in QuotedGasPrices,
       block_ok, send_ok \in BOOLEAN, sim \in SimResults :
       ExecuteSandwich(front_amount, expected_profit, front_price, back_price,
                       block_ok, sim, send_ok)

SpecSandwich == Init /\ [][NextSandwich]_vars

\* the height up to which the chain grows when bundles are followed until
\* they are old
MaxHeight == 3

NewHead ==
    /\ chain < MaxHeight
    /\ chain' = chain + 1
    /\ UNCHANGED <<breakerVars, loopVars, storeVars, bot, fb, pool, relay>>

\* the main loop of a started bot on a growing chain
NextBundles ==
    \/ BotStart
    \/ NewHead
    \/ \E tx \in PoolTxs : Broadcast(tx)
    \/ MainLoopTop
    \/ \E tx \in PoolTxs, loan_found, block_ok, send_ok \in BOOLEAN, sim \in SimResults :
          ProcessTransaction(tx, loan_found, block_ok, sim, send_ok)
    \/ MainLoopSleep

SpecBundles == Init /\ [][NextBundles]_vars

----------------------------------------------------------------------------
(* MempoolMonitor and MempoolManager *)

\* scaled: the 300 seconds of the monitor's clean-up and the default of
\* config['tx_cleanup_threshold'], 60 seconds
TxTTL == 1
TxCleanupThreshold == 1

\* the transactions the two stores get to see
MempoolTxs == {tx \in PoolTxs : tx.id \in {"t1", "t2"}}

\* the Transaction dataclass, of which the stores read hash and timestamp
Transaction(h, t) == [hash |-> h, timestamp |-> t]

StoredHashes(transactions) == {e.hash : e \in transactions}

\* w3.eth.get_pending_transactions, by hash
get_pending_transactions == {tx.id : tx \in pool}

\* the body of the while loop of _monitor_loop: when the fetch raises, the
\* except clause is all that runs
monitor_iteration(transactions, pending, fetch_ok, t) ==
    IF ~fetch_ok THEN transactions
    ELSE LET ingested ==
                 transactions \cup
                 {Transaction(h, t) : h \in pending \ StoredHashes(transactions)}
         IN {e \in ingested : ~(t - e.timestamp > TxTTL)}

MonitorStart ==
    /\ ~monitor.running
    /\ monitor' = [monitor EXCEPT !.running = TRUE]
    /\ UNCHANGED <<breakerVars, loopVars, botVars, manager, flashloan, sandwich,
                   arbitrage>>

\* stop awaits the task, which ends at its next test of running
MonitorStop ==
    /\ monitor.running
    /\ monitor' = [monitor EXCEPT !.running = FALSE]
    /\ UNCHANGED <<breakerVars, loopVars, botVars, manager, flashloan, sandwich,
                   arbitrage>>

MonitorLoop(fetch_ok) ==
    /\ monitor.running
    /\ monitor' = [monitor EXCEPT
                     !.transactions =
                         monitor_iteration(@, get_pending_transactions, fetch_ok, now),
                     !.iterated_at = now]
    /\ UNCHANGED <<breakerVars, loopVars, botVars, manager, flashloan, sandwich,
                   arbitrage>>

IdentifiesSwap(data) == "swap"

\* the placeholders of MempoolManager: "None" is None
_identify_protocol(data) == "None"

_identify_token(address) == "None"

\* dict assignment: an existing key keeps its place
RECURSIVE Put(_, _)
Put(txs, transaction) ==
    IF txs = <<>> THEN <<transaction>>
    ELSE IF Head(txs).hash = transaction.hash THEN <<transaction>> \o Tail(txs)
    ELSE <<Head(txs)>> \o Put(Tail(txs), transaction)

Keys(txs) == {txs[i].hash : i \in 1 .. Len(txs)}

\* the input data and the receiver of a transaction are functions of its hash
_update_indexes(m, transaction) ==
    LET protocol == _identify_protocol(transaction.hash)
        token == _identify_token(transaction.hash)
    IN [m EXCEPT
          !.index_by_protocol =
              IF protocol # "None" THEN @ \cup {<<protocol, transaction.hash>>}
              ELSE @,
          !.index_by_token =
              IF token # "None" THEN @ \cup {<<token, transaction.hash>>}
              ELSE @]

\* found is whether get_transaction returned the transaction; None and an
\* exception both leave the manager as it was
_process_transaction(m, tx_hash, found, t) ==
    IF ~found THEN m
    ELSE LET transaction == Transaction(tx_hash, t)
         IN _update_indexes([m EXCEPT !.pending_txs = Put(@, transaction)],
                            transaction)

\* _remove_from_indexes is not a method of the class: after the del the call
\* raises AttributeError
_remove_transaction(m, tx_hash) ==
    IF tx_hash \in Keys(m.pending_txs)
    THEN [m EXCEPT !.pending_txs = SelectSeq(@, LAMBDA e : e.hash # tx_hash),
                   !.last_error = "AttributeError"]
    ELSE m

\* the exception of the first removal ends the for loop
_cleanup_old_transactions(m, t) ==
    LET old_txs == SelectSeq(m.pending_txs,
                             LAMBDA e : e.timestamp < t - TxCleanupThreshold)
    IN IF old_txs = <<>> THEN m
       ELSE _remove_transaction(m, Head(old_txs).hash)

RECURSIVE ProcessAll(_, _, _)
ProcessAll(m, entries, t) ==
    IF entries = <<>> THEN m
    ELSE ProcessAll(_process_transaction(m, Head(entries), TRUE, t),
                    Tail(entries), t)

\* the orders in which the transactions of S that the node still knows can
\* come back from get_transaction
Orders(S) ==
    {q \in UNION {[1 .. n -> S] : n \in 0 .. Cardinality(S)} :
        \A i, j \in 1 .. Len(q) : i # j => q[i] # q[j]}

\* the filter delivers a hash once for as long as it stays pending
get_new_entries == get_pending_transactions \ manager.seen

\* one turn of the while loop of start_monitoring
ManagerLoop(entries) ==
    /\ entries \in Orders(get_new_entries)
    /\ manager' =
           [_cleanup_old_transactions(
                ProcessAll([manager EXCEPT !.last_error = "none"], entries, now),
                now)
            EXCEPT !.seen = get_pending_transactions]
    /\ UNCHANGED <<breakerVars, loopVars, botVars, monitor, flashloan, sandwich,
                   arbitrage>>

NextMempool ==
    \/ Tick
    \/ \E tx \in MempoolTxs : Broadcast(tx)
    \/ \E tx \in MempoolTxs : Leave(tx)
    \/ MonitorStart
    \/ MonitorStop
    \/ \E fetch_ok \in BOOLEAN : MonitorLoop(fetch_ok)
    \/ \E entries \in Orders({tx.id : tx \in MempoolTxs}) : ManagerLoop(entries)

SpecMempool == Init /\ [][NextMempool]_vars

----------------------------------------------------------------------------
(* FlashLoanManager *)

MaxLiquidity == 2

\* _get_provider_fee, in ten-thousandths of a token unit
_get_provider_fee(provider, amount) ==
    CASE provider = AAVE_V3 -> amount * 9
      [] provider = DYDX -> 0
      [] provider = BALANCER -> amount * 1
      [] provider = UNISWAP_V3 -> amount * 5

NoLiquidity == [known |-> FALSE, value |-> 0]

\* _get_provider_liquidity: known is FALSE for None. The Aave and Balancer
\* branches subscript the result of call() before awaiting it, which raises
\* TypeError whether call() returns a coroutine or a value; the other two
\* await call(), which raises TypeError unless call() returns an awaitable
_get_provider_liquidity(fl, provider) ==
    IF provider \notin fl.contracts THEN NoLiquidity
    ELSE IF provider \in {AAVE_V3, BALANCER} THEN NoLiquidity
    ELSE IF ~fl.async_w3 THEN NoLiquidity
    ELSE [known |-> TRUE, value |-> fl.liquidity[provider]]

\* the for loop of get_optimal_provider from the i-th provider on; lowest_fee
\* is infinite exactly while best_provider is None
RECURSIVE BestFrom(_, _, _, _)
BestFrom(fl, i, best_provider, lowest_fee) ==
    IF i > Len(ProviderOrder) THEN best_provider
    ELSE LET provider == ProviderOrder[i]
             fee == _get_provider_fee(provider, fl.amount)
             liquidity == _get_provider_liquidity(fl, provider)
         IN IF provider \notin fl.contracts
            THEN BestFrom(fl, i + 1, best_provider, lowest_fee)
            ELSE IF ~liquidity.known
            THEN BestFrom(fl, i + 1, best_provider, lowest_fee)
            ELSE IF liquidity.value < fl.amount
            THEN BestFrom(fl, i + 1, best_provider, lowest_fee)
            ELSE IF best_provider = "None" \/ fee < lowest_fee
            THEN BestFrom(fl, i + 1, provider, fee)
            ELSE BestFrom(fl, i + 1, best_provider, lowest_fee)

get_optimal_provider(fl) == BestFrom(fl, 1, "None", 0)

GetOptimalProvider ==
    /\ flashloan.best_provider = "unasked"
    /\ flashloan' = [flashloan EXCEPT !.best_provider = get_optimal_provider(flashloan)]
    /\ UNCHANGED <<breakerVars, loopVars, botVars, monitor, manager, sandwich,
                   arbitrage>>

\* the managers and the requests: every set of contracts that could be built,
\* both kinds of Web3, every liquidity of every provider and every amount
InitLoan ==
    /\ BreakerInit /\ ConfigInit(ContractWhitelist) /\ LoopInit(NoFile)
    /\ BotInit /\ MempoolInit /\ StrategyInit
    /\ \E contracts \in SUBSET ProviderNames, async_w3 \in BOOLEAN,
          liquidity \in [ProviderNames -> 0 .. MaxLiquidity],
          amount \in 0 .. MaxLiquidity :
          LoanInit(contracts, async_w3, liquidity, amount)

NextLoan == GetOptimalProvider

SpecLoan == InitLoan /\ [][NextLoan]_vars

----------------------------------------------------------------------------
(* ArbitrageStrategy *)

DefaultMaxPathLength == 3

\* the placeholder: return set()
_get_dex_pairs(dex) == {}

\* pairs_of gives the pairs read for each DEX
_build_dex_graph(pairs_of) ==
    [d \in PoolIds |->
        [pairs |-> pairs_of[d],
         neighbors |-> {o \in PoolIds \ {d} : pairs_of[d] \cap pairs_of[o] # {}}]]

_get_dexes_with_token(dex_graph, token) ==
    {d \in PoolIds : token \in dex_graph[d].pairs}

\* the paths the depth-first search appends; removing start from visited
\* after a cycle changes nothing, start being admitted whether visited or not
RECURSIVE _find_cycles(_, _, _, _, _, _, _, _)
_find_cycles(dex_graph, pairs_of, start, current, path, visited, max_length, token) ==
    IF Len(path) > 1 /\ current = start THEN {path}
    ELSE IF Len(path) >= max_length THEN {}
    ELSE UNION {_find_cycles(dex_graph, pairs_of, start, neighbor,
                             Append(path, neighbor), visited \cup {neighbor},
                             max_length, token) :
                   neighbor \in
                       {n \in dex_graph[current].neighbors :
                           /\ Len(path) < max_length
                           /\ (n = start \/ n \notin visited)
                           /\ token \in pairs_of[n]}}

_find_arbitrage_paths(pairs_of, token) ==
    LET dex_graph == _build_dex_graph(pairs_of)
    IN UNION {_find_cycles(dex_graph, pairs_of, start_dex, start_dex,
                           <<start_dex>>, {start_dex}, DefaultMaxPathLength,
                           token) :
                 start_dex \in _get_dexes_with_token(dex_graph, token)}

FindArbitragePaths ==
    /\ ~arbitrage.asked
    /\ arbitrage' =
           [arbitrage EXCEPT
              !.asked = TRUE,
              !.paths = _find_arbitrage_paths([d \in PoolIds |-> _get_dex_pairs(d)],
                                              "T")]
    /\ UNCHANGED <<breakerVars, loopVars, botVars, monitor, manager, flashloan,
                   sandwich>>

\* every listing of the tokens by the configured DEXes
InitArbitrage ==
    /\ BreakerInit /\ ConfigInit(ContractWhitelist) /\ LoopInit(NoFile)
    /\ BotInit /\ MempoolInit /\ SandwichInit
    /\ LoanInit(ProviderNames, TRUE, [p \in ProviderNames |-> 0], 0)
    /\ \E listed \in [PoolIds -> SUBSET Tokens] : ArbitrageInit(listed)

NextArbitrage == FindArbitragePaths

SpecArbitrage == InitArbitrage /\ [][NextArbitrage]_vars

----------------------------------------------------------------------------
(* Claims about the circuit breaker *)

\* C1: once the breaker is triggered, every validate_transaction returns
\* False, and only reset_breaker clears the triggered flag: neither time,
\* nor the health check, nor the periodic metrics reset does.
C1_TriggeredUntilReset ==
    [][/\ (cb.triggered /\ lastOp' = "validate") => ~lastResult'
       /\ (cb.triggered /\ ~cb'.triggered) => lastOp' = "reset_breaker"]_vars

\* a validation was refused because of the trigger after the periodic
\* metrics reset had run on the triggered breaker
C1_Witness ==
    /\ lastOp = "validate"
    /\ lastReject = "triggered"
    /\ cb.triggered
    /\ cb.trigger_reason = "Emergency shutdown activated"
    /\ cb.last_metrics_reset >= MetricsResetInterval

\* C3: at every time at most MaxTxPerWindow acceptances have their
\* acceptance time inside the last TxWindow seconds.
C3_RateWindowBound == Len(InWindow(acceptLog, now)) <= MaxTxPerWindow

\* C4: the accumulated position size is the sum of the values accepted since
\* the last reset and never exceeds max_position_size.
C4_PositionWithinCap ==
    /\ cb.current_size = acceptedSum
    /\ cb.current_size <= MaxPositionSize

\* a transaction was rejected by the position check with the cap in use
C4_Witness ==
    /\ lastOp = "validate"
    /\ lastReject = "position"
    /\ cb.current_size = MaxPositionSize

TrippingChecks == {"position", "gas_price", "daily_gas", "min_profit", "slippage"}

\* C7 as stated: every rejecting check, the rate check included, leaves the
\* breaker triggered with a reason.
C7_EveryRejectionTrips ==
    (lastOp = "validate" /\ lastReject \in TrippingChecks \cup {"tx_rate"})
        => (cb.triggered /\ cb.trigger_reason # NoReason /\ cb.trigger_reason # "")

\* C7 amended: a rejection by the position, gas-price, daily-gas, min-profit
\* or slippage check leaves the breaker triggered with a non-empty reason; a
\* rejection by the rate check leaves it untriggered.
C7_RejectionTripsExceptRate ==
    lastOp = "validate" =>
        /\ lastReject \in TrippingChecks =>
               (cb.triggered /\ cb.trigger_reason # NoReason /\ cb.trigger_reason # "")
        /\ lastReject = "tx_rate" => (~cb.triggered /\ cb.trigger_reason = NoReason)

\* the last check of the chain rejected and tripped the breaker
C7_Witness ==
    /\ lastOp = "validate"
    /\ lastReject = "slippage"
    /\ cb.triggered
    /\ cb.trigger_reason = "Slippage too high"

\* the timestamps the rate check of a validation entered now will count
WindowCount == Len(InWindow(_check_system_health(cb, now).tx_timestamps, now))

ReachedRateCheck == {"none", "tx_rate", "min_profit", "slippage", "error_price"}

\* C8: a validation that reaches the rate check is rejected by it exactly
\* when MaxTxPerWindow acceptances lie inside the window; the rejection does
\* not latch, so that once the window has elapsed validations are accepted
\* again without a reset.
C8_RateLimitContract ==
    [][(lastOp' = "validate" /\ lastReject' \in ReachedRateCheck) =>
          /\ (lastReject' = "tx_rate") <=> (WindowCount >= MaxTxPerWindow)
          /\ lastReject' = "tx_rate" => ~cb'.triggered]_vars

\* a validation was accepted after an earlier one had been rejected by the
\* rate check, with no reset in between
C8_Witness ==
    /\ lastOp = "validate"
    /\ lastResult
    /\ rateRejected
    /\ Len(cb.tx_timestamps) = 1

----------------------------------------------------------------------------
(* Claims about the loop manager and the emergency procedure *)

\* C2: a run of _execute_strategy_safely calls the signer only after
\* safety.validate_transaction returned True for the transaction, in the
\* run itself and again in _submit_transaction; it calls
\* send_raw_transaction only after the signer; and when a validation of the
\* run returned False, neither the signer nor send_raw_transaction is
\* called.
C2_SignedOnlyAfterValidation ==
    /\ lastExec.signed => (lastExec.v1 = "True" /\ lastExec.v2 = "True")
    /\ lastExec.sent => lastExec.signed
    /\ (lastExec.v1 = "False" \/ lastExec.v2 = "False")
          => (~lastExec.signed /\ ~lastExec.sent)

\* a transaction was validated twice, signed and sent, and its hash is
\* pending
C2_Witness ==
    /\ lastExec.executed
    /\ lastExec.v1 = "True"
    /\ lastExec.v2 = "True"
    /\ lastExec.signed
    /\ lastExec.sent
    /\ lm.pending_transactions # {}

\* C9: strategy.execute is never invoked while the breaker is triggered.
C9_NoExecutionWhileTriggered == lastExec.executed => ~lastExec.triggered

\* C10: whenever the breaker is triggered, the emergency procedure has been
\* started.
C10_TriggerStartsEmergency == cb.triggered => em.shutdown_triggered

----------------------------------------------------------------------------
(* Claims about the bot and the relay *)

\* C5: no two send_bundle calls carry the same bundle hash and the same
\* target block.
C5_SentAtMostOnce ==
    \A i, j \in 1 .. Len(relay) :
        (relay[i].hash = relay[j].hash /\ relay[i].target_block = relay[j].target_block)
            => i = j

\* C6: every send_bundle call follows a successful simulation whose gross
\* value is at least 0.9 times the expected gross.
C6_SentOnlyAfterGoodSimulation ==
    \A i \in 1 .. Len(relay) :
        /\ relay[i].success
        /\ relay[i].gross_value * 10 >= ExpectedGross * 9

----------------------------------------------------------------------------
(* Start-up on a preserved emergency state *)

NextRecovery ==
    \/ \E fails \in BOOLEAN : Start(fails)
    \/ Stop
    \/ \E s \in Strategies, result \in Results, wire \in Wires :
          ExecuteStrategy(s, result, wire)

SpecRecovery == InitEmergency /\ [][NextRecovery]_vars

\* C11: while the emergency manager is in recovery mode, no strategy's
\* execute is invoked.
C11_NoExecutionInRecovery == em.recovery_mode => ~lastExec.executed

----------------------------------------------------------------------------
(* Claims about the emergency manager *)

\* the file on disk is what manager e would write now
FileIsCurrent(e) == e.state_file = _preserve_system_state(e).state_file

\* C12: a manager constructed on the file another manager wrote has that
\* manager's shutdown_triggered flag, is in recovery mode exactly when the
\* flag was set, and has exactly its pending and cancelled sets.
C12_LoadRestoresSavedState ==
    [][(lastOp' = "restart" /\ FileIsCurrent(em)) =>
          /\ em'.shutdown_triggered = em.shutdown_triggered
          /\ em'.recovery_mode = em.shutdown_triggered
          /\ em'.pending_transactions = em.pending_transactions
          /\ em'.cancelled_transactions = em.cancelled_transactions]_vars

\* C13: every FATAL shutdown request is followed by the exit of the process
\* with code 1, and the process exits only when the notifications, the
\* cancellations and the write of the state file are over.
C13_FatalEndsInExit ==
    /\ em.fatal ~> (em.exited /\ em.exit_code = 1)
    /\ [](em.exited => (em.notified /\ em.preserved /\ em.queue = {}))

\* C19: every cancellation that reached the node is a zero-value transfer
\* from the sender of the pending transaction to itself, with its nonce and
\* 150% of its gas price (rounded down), and its hash has moved from the
\* pending set to the cancelled set; a hash whose cancellation failed is
\* still pending and nothing was sent for it.
C19_CancelReplacesOrKeeps ==
    /\ \A c \in em.cancel_sent :
          /\ c.tx.from = ChainTx(c.hash).from
          /\ c.tx.to = c.tx.from
          /\ c.tx.value = 0
          /\ c.tx.nonce = ChainTx(c.hash).nonce
          /\ 2 * c.tx.gasPrice \in {3 * ChainTx(c.hash).gasPrice - 1,
                                    3 * ChainTx(c.hash).gasPrice}
          /\ c.hash \in em.cancelled_transactions
          /\ c.hash \notin em.pending_transactions
    /\ \A h \in em.cancel_failed :
          /\ h \in em.pending_transactions
          /\ h \notin em.cancelled_transactions
          /\ \A c \in em.cancel_sent : c.hash # h
    /\ em.pc = "done" =>
          em.pending_transactions \subseteq em.cancel_failed

C19_Witness ==
    /\ em.pc = "done"
    /\ \E c \in em.cancel_sent : ChainTx(c.hash).gasPrice = 3
    /\ em.cancel_failed # {}

----------------------------------------------------------------------------
(* Claims about the coordinator *)

RiskRank(level) ==
    IF level = "HIGH" THEN 2 ELSE IF level = "MEDIUM" THEN 1 ELSE 0

\* C14: the risk level is HIGH once a CRITICAL or FATAL incident has been
\* recorded, and recording an incident never lowers the risk level.
C14_RiskLevelNeverLowers ==
    /\ [](em.shutdown_triggered => risk = "HIGH")
    /\ [][RiskRank(risk') >= RiskRank(risk)]_vars

\* C15: with an empty whitelist no transaction is rejected by the whitelist
\* check; with a non-empty whitelist a transaction is rejected by it exactly
\* when it has a destination that is not in the list.
C15_EmptyWhitelistDisables ==
    /\ (lastOp = "coord_validate" /\ lastReject = "whitelist")
          => config.contract_whitelist # {}
    /\ \A tx \in StrategyTxs :
          config.contract_whitelist # {} =>
              (~_validate_contract_interaction(tx)
                  <=> (tx.to # NoAddress /\ tx.to \notin config.contract_whitelist))

----------------------------------------------------------------------------
(* Claims about the metrics of the breaker *)

\* C16: a validation that finds the metrics-reset interval elapsed zeroes
\* the position size, the daily gas spend, the daily PnL and the timestamps
\* of the rate window before its checks run, and the reset leaves the
\* triggered flag and the reason as they were: on a triggered breaker the
\* metrics are zero afterwards and flag and reason are unchanged; otherwise
\* the metrics hold this transaction only and the flag is set only by one
\* of this validation's own tripping checks.
C16_ResetZeroesMetricsOnly ==
    [][(lastOp' = "validate" /\ cb.enabled /\ MetricsResetDue(cb, now)) =>
          /\ cb'.current_daily_pnl = 0
          /\ cb'.last_metrics_reset = now
          /\ cb'.current_size = (IF lastResult' THEN acceptedSum' ELSE 0)
          /\ Len(cb'.tx_timestamps) = (IF lastResult' THEN 1 ELSE 0)
          /\ cb.triggered =>
                /\ cb'.current_daily_spend = 0
                /\ cb'.triggered
                /\ cb'.trigger_reason = cb.trigger_reason
          /\ ~cb.triggered =>
                (cb'.triggered <=> lastReject' \in TrippingChecks)]_vars

C16_Witness ==
    /\ lastOp = "validate"
    /\ lastReject = "triggered"
    /\ cb.last_metrics_reset = now
    /\ now >= MetricsResetInterval
    /\ cb.trigger_reason = "Maximum daily loss exceeded"
    /\ cb.current_daily_pnl = 0

\* the breaker without the time of its last health check
Metrics(b) == [b EXCEPT !.last_health_check = 0]

RunOnce == _check_system_health(cb, now)

RunTwice == _check_system_health(RunOnce, now)

C18_LossTriggersAtBound ==
    [][(/\ lastOp' = "other"
        /\ cb'.current_daily_pnl # cb.current_daily_pnl
        /\ cb'.last_metrics_reset = cb.last_metrics_reset) =>
          IF cb'.current_daily_pnl <= -MaxDailyLoss
          THEN /\ cb'.triggered
               /\ cb'.trigger_reason = "Maximum daily loss exceeded"
          ELSE /\ cb'.triggered = cb.triggered
               /\ cb'.trigger_reason = cb.trigger_reason]_vars

C18_Witness ==
    /\ cb.current_daily_pnl = -MaxDailyLoss
    /\ cb.triggered
    /\ cb.trigger_reason = "Maximum daily loss exceeded"
    /\ cb.last_metrics_reset = 0
    /\ now = 0

----------------------------------------------------------------------------
(* Claims about incidents of the loop manager *)

\* C20: whenever the coordinator's validation rejects the transaction a
\* strategy returned, a WARNING incident is recorded.
C20_RejectionRecordsWarning ==
    (lastExec.executed /\ (lastExec.v1 = "False" \/ lastExec.v2 = "False"))
        => lastExec.incident

----------------------------------------------------------------------------
(* Claims about the scheduler *)

\* C22: a strategy that is running and ready is selected in its turn
\* whenever the network check and the resource check both pass.
C22_ReadyStrategySelected == lastOp = "skipped" => ~lastResult

\* C21: after a strategy's execution has raised (the WARNING incident is on
\* record), the loop goes on and a ready strategy whose checks pass is still
\* executed in its turn.
C21_RaiseDoesNotStarveOthers ==
    (risk = "MEDIUM" /\ lm.running /\ lm.looping)
        => (lastOp = "skipped" => ~lastResult)

\* C23: right after an execution, when every strategy is running, the
\* executed one is in its cooldown: is_ready is False for some strategy.
C23_CooldownAfterExecution ==
    (lastExec.executed /\ \A s \in Strategies : strat[s].running)
        => \E s \in Strategies : ~is_ready(s)

\* C24: once stop has cleared running, every live scheduler loop and monitor
\* task ends.
C24_StopEndsTasks ==
    \A t \in Tasks : (~lm.running /\ lm.tasks[t] > 0) ~> (lm.tasks[t] = 0)

----------------------------------------------------------------------------
(* Claims about the pending-transaction stores *)

\* C25: an entry stays in the store only while its transaction is pending on
\* the node: an iteration of the monitor loop that has fetched the pending
\* set leaves no entry whose transaction was included or dropped
C25_EvictedWhenNoLongerPending ==
    [][MonitorLoop(TRUE) =>
          StoredHashes(monitor'.transactions) \subseteq get_pending_transactions]_vars

\* C26: at the end of every iteration of the monitor loop, those whose fetch
\* fails included, no stored transaction is older than the TTL
C26_NothingOlderThanTTL ==
    monitor.iterated_at = now =>
        \A e \in monitor.transactions : ~(now - e.timestamp > TxTTL)

\* C27: ingesting a hash that is already stored leaves the stored entry, its
\* first-seen timestamp included, as it was, in the monitor and in the
\* manager: an entry whose hash stays stored stays the same entry
C27_IngestKeepsStoredEntry ==
    [][/\ \A e \in monitor.transactions :
              e.hash \in StoredHashes(monitor'.transactions)
                  => e \in monitor'.transactions
       /\ \A i \in 1 .. Len(manager.pending_txs) :
              manager.pending_txs[i].hash \in Keys(manager'.pending_txs)
                  => \E j \in 1 .. Len(manager'.pending_txs) :
                         manager'.pending_txs[j] = manager.pending_txs[i]]_vars

IndexedHashes(m) == {p[2] : p \in m.index_by_protocol \cup m.index_by_token}

----------------------------------------------------------------------------
(* Claims about the bundles of the bot *)

\* C29: when the main loop has handled a new block N, no tracked bundle has a
\* target block of N - 2 or less, and every bundle tracked before with a
\* later target block is still tracked
C29_OldBundlesPruned ==
    [][(MainLoopTop /\ chain > bot.current_block) =>
          LET before == bot.pending_bundles
              after == bot'.pending_bundles
          IN /\ \A j \in 1 .. Len(after) : ~(after[j].target_block <= chain - 2)
             /\ \A i \in 1 .. Len(before) :
                    before[i].target_block > chain - 2
                        => \E j \in 1 .. Len(after) : after[j] = before[i]]_vars

----------------------------------------------------------------------------
(* Claims about the flash-loan providers *)

\* the available providers whose pool holds the requested amount
Sufficient(fl) == {p \in fl.contracts : fl.liquidity[p] >= fl.amount}

\* C30: the selection returns a provider that holds at least the requested
\* amount and whose fee is the least among the available providers that do,
\* and it returns none exactly when no available provider holds the amount
C30_CheapestSufficientProvider ==
    flashloan.best_provider # "unasked" =>
        IF Sufficient(flashloan) = {}
        THEN flashloan.best_provider = "None"
        ELSE /\ flashloan.best_provider \in Sufficient(flashloan)
             /\ \A q \in Sufficient(flashloan) :
                    _get_provider_fee(flashloan.best_provider, flashloan.amount)
                        <= _get_provider_fee(q, flashloan.amount)

\* the fee fractions of _get_provider_fee, in ten-thousandths
FeeFraction(provider) ==
    CASE provider = AAVE_V3 -> 9
      [] provider = DYDX -> 0
      [] provider = BALANCER -> 1
      [] provider = UNISWAP_V3 -> 5

\* the qualifying providers of least cost for the requested amount
Cheapest(fl) ==
    {p \in Sufficient(fl) :
        \A q \in Sufficient(fl) :
            _get_provider_fee(p, fl.amount) <= _get_provider_fee(q, fl.amount)}

\* C31: when several qualifying providers have the same cost for the
\* requested amount, the selection returns the one of them with the lowest
\* fee fraction (no two providers share a fee fraction, so the alphabetic
\* rule never has to decide)
C31_TieBrokenByFeeFraction ==
    (flashloan.best_provider # "unasked" /\ Cardinality(Cheapest(flashloan)) > 1)
        => /\ flashloan.best_provider \in Cheapest(flashloan)
           /\ \A q \in Cheapest(flashloan) :
                  FeeFraction(flashloan.best_provider) <= FeeFraction(q)

----------------------------------------------------------------------------
(* Claims about the strategies *)

HasVictim(hash) == \E i \in 1 .. Len(hash) : hash[i] = "victim"

Visited(path) == {path[i] : i \in 1 .. Len(path)}

\* C33: with the default maximum length, for three pools that all carry the
\* token (and are therefore connected two by two) the enumeration returns a
\* cycle that visits all three
C33_TriangleIsFound ==
    (arbitrage.asked /\ \A d \in PoolIds : "T" \in arbitrage.listed[d])
        => \E path \in arbitrage.paths : Visited(path) = PoolIds


----------------------------------------------------------------------------
(* Claims about the budget a validation consumes *)

\* C34: a scheduler run that submits a transaction (its hash joins the
\* pending set) leaves exactly one more timestamp in the rate window than
\* the window held at that time, and the position size grown by the value
\* of one strategy transaction.
C34_OneSlotPerSubmission ==
    [][(lastExec'.executed /\ lm'.pending_transactions # lm.pending_transactions)
       => /\ Len(cb'.tx_timestamps)
             = Len(FilterWindow(cb.tx_timestamps, now, TxWindow)) + 1
          /\ \E tx \in StrategyTxs :
                /\ TxHash(tx) \in lm'.pending_transactions
                /\ cb'.current_size \in {cb.current_size + tx.value, tx.value}]_vars


\* C35: a validation by the safety coordinator that returns False leaves
\* the position size, the daily gas spend and the number of timestamps in
\* the rate window no larger than they were.
C35_RefusalConsumesNothing ==
    [][(lastOp' = "coord_validate" /\ ~lastResult')
       => /\ cb'.current_size <= cb.current_size
          /\ cb'.current_daily_spend <= cb.current_daily_spend
          /\ Len(cb'.tx_timestamps) <= Len(cb.tx_timestamps)]_vars


----------------------------------------------------------------------------
(* Claims about the emergency procedure *)

\* C36: within one process the emergency procedure runs at most once: once
\* shutdown_triggered is set it stays set, and no later trigger_shutdown
\* sends the notifications again, queues cancellations again or writes the
\* state again; after the procedure has ended nothing of it happens.
C36_ShutdownRunsOnce ==
    [][em.shutdown_triggered
       => /\ em'.shutdown_triggered
          /\ em.notified => em'.notified
          /\ em.preserved => em'.preserved
          /\ em'.queue \subseteq em.queue
          /\ em.pc = "done"
             => /\ em'.pc = "done"
                /\ em'.state_file = em.state_file
                /\ em'.cancel_sent = em.cancel_sent]_vars

\* a CRITICAL shutdown has ended and a FATAL trigger arrived after it began
C36_Witness ==
    /\ em.shutdown_triggered
    /\ em.pc = "done"
    /\ em.level = "CRITICAL"
    /\ em.fatal
    /\ em.cancel_sent # {}


\* C37: under every interleaving of the transaction monitor with the
\* cancellations, no hash is both pending and cancelled, and a hash that
\* leaves the pending set had its receipt seen or its cancellation sent.
C37_PendingAndCancelledDisjoint ==
    /\ [](em.pending_transactions \cap em.cancelled_transactions = {})
    /\ [][\A h \in em.pending_transactions \ em'.pending_transactions :
             \/ h \in em'.receipt_seen
             \/ \E c \in em'.cancel_sent : c.hash = h]_vars

\* the monitor saw the receipt of a hash while its cancellation was under
\* way, and another hash was cancelled while still pending
C37_Witness ==
    /\ em.receipt_seen \cap em.cancelled_transactions # {}
    /\ em.cancelled_transactions \ em.receipt_seen # {}

\* C38: when trigger_shutdown has completed, the state file lists as
\* pending exactly the pending set in memory and as cancelled exactly the
\* cancelled set in memory.
C38_FileMatchesMemory ==
    em.pc = "done"
        => /\ em.state_file.exists
           /\ SetOf(em.state_file.pending_transactions) = em.pending_transactions
           /\ SetOf(em.state_file.cancelled_transactions)
                  = em.cancelled_transactions

\* C39: a process that was in recovery mode is followed by a process in
\* recovery mode.
C39_RecoverySurvivesRestart ==
    [][(em.recovery_mode /\ lastOp' = "restart") => em'.recovery_mode]_vars


----------------------------------------------------------------------------
(* Claims about the scheduler's running flag *)

\* C40: the loop manager's running flag is set only while a scheduler loop
\* is live, so that a start after a failed start runs the loop.
C40_RunningMeansLooping == lm.running => lm.looping

====
